---- MODULE Spec2Model ----
(***************************************************************************)
(* Model of the download engine of yt-gui: DownloadManager                 *)
(* (src/modules/download_manager.py) with its asyncio.PriorityQueue, the   *)
(* worker coroutines, pause / resume / cancel, the retry policy and the    *)
(* part of DatabaseManager (src/database/db_manager.py) the engine calls.  *)
(*                                                                         *)
(* The engine runs on one asyncio event loop: code between two awaits that *)
(* really suspend is one atomic step.  The suspension points of a worker   *)
(* are queue.get(), the two run_in_executor calls (extract_info, download) *)
(* and asyncio.sleep of the retry backoff; each is a value of pc, and the  *)
(* download has two: before and after yt-dlp reports the transfer finished.*)
(*                                                                         *)
(* Clock: DownloadTask.created_at is datetime.now() at construction; every *)
(* add_download commits a database row between two constructions, and the  *)
(* model takes the timestamps of successive tasks as strictly increasing.  *)
(*                                                                         *)
(* The metadata cache of get_video_info, add_channel_download, stop, the   *)
(* failures of the database and the subscribers of the event bus each have *)
(* their actions and a specification of their own below.                   *)
(***************************************************************************)
EXTENDS Integers, Sequences, FiniteSets, TLC

\* ---- bounds of the model ----
MaxTasks == 2          \* add_download is called at most this many times
MaxQueueTasks == 3     \* the same, in the specification of the queue alone (SpecQueue)
MaxCalls == 2          \* the client calls pause / resume / cancel at most this many times
MaxInfoCalls == 2      \* get_video_info is called at most this many times
MaxTime == 5           \* the clock stops here (in units of 5 minutes)
MaxBackoffTime == 9    \* the clock of the backoff stops here (in seconds)
MaxBackoffTasks == 1   \* add_download is called at most this many times in SpecBackoff

\* ---- the configuration: DownloadManager(ServiceConfig(max_workers=2, retry_count=3)) ----
max_workers == 2       \* ServiceConfig.max_workers (size of the worker pool)
retry_count == 3       \* ServiceConfig.retry_count (max attempts)
cache_duration == 2    \* self._cache_duration = timedelta(minutes=10), in units of 5 minutes

Urls == {"u1", "u2"}
Priorities == {1, 5}
TaskIds == 1..MaxQueueTasks
UnknownId == 0         \* an id no task ever has

\* DownloadStatus
PENDING == "pending"
DOWNLOADING == "downloading"
PROCESSING == "processing"
COMPLETED == "completed"
FAILED == "failed"
CANCELLED == "cancelled"
PAUSED == "paused"

\* content_type of a task that was given none (Optional[str] = None)
None == "None"

\* the percentages a 'downloading' report of yt-dlp carries (downloaded_bytes of
\* total_bytes)
Reports == {50}

VARIABLES
    tasks,             \* id -> DownloadTask (the fields the engine reads and writes)
    now,               \* the clock read by datetime.now() in DownloadTask()
    queue,             \* self.queue: the heap list of asyncio.PriorityQueue
    active_downloads,  \* self.active_downloads (keys)
    paused_downloads,  \* self.paused_downloads (keys)
    workers,           \* self.workers: worker -> [pc, task]
    db_queue,          \* table download_queue: id -> status
    db_history,        \* table download_history: the recorded urls
    events,            \* events emitted through the event bus: (name, task id)
    ncalls,            \* number of pause / resume / cancel calls made so far
    result,            \* the interface call the last step made and what it returned
    shutdown,          \* self._shutdown_event.is_set()
    metadata_cache,    \* self._metadata_cache: the entries (url, info, cached_time)
    info_calls,        \* the get_video_info calls made so far: what each did and returned
    callback           \* the event whose subscriber callback is running on the event loop

vars == <<tasks, now, queue, active_downloads, paused_downloads, workers,
          db_queue, db_history, events, ncalls, result,
          shutdown, metadata_cache, info_calls, callback>>

\* the state of the shutdown, of the metadata cache and of the event subscribers
others == <<shutdown, metadata_cache, info_calls, callback>>

\* ---- asyncio.PriorityQueue: heapq on a list of (-priority, created_at, task) ----

\* python tuple comparison a < b of two queue entries; the third component is
\* compared only when the first two are equal, and then the two are the same task
\* object (timestamps of distinct tasks differ), for which < is False.
TupleLt(a, b) ==
    \/ a[1] < b[1]
    \/ a[1] = b[1] /\ a[2] < b[2]

At(heap, pos) == heap[pos + 1]
SetAt(heap, pos, item) == [heap EXCEPT ![pos + 1] = item]

RECURSIVE siftdown(_, _, _, _)
siftdown(heap, startpos, pos, newitem) ==
    IF pos > startpos
    THEN LET parentpos == (pos - 1) \div 2
             parent == At(heap, parentpos)
         IN IF TupleLt(newitem, parent)
            THEN siftdown(SetAt(heap, pos, parent), startpos, parentpos, newitem)
            ELSE SetAt(heap, pos, newitem)
    ELSE SetAt(heap, pos, newitem)

RECURSIVE siftup(_, _, _, _)
siftup(heap, startpos, pos, newitem) ==
    LET endpos == Len(heap)
        childpos == 2 * pos + 1
        rightpos == childpos + 1
    IN IF childpos < endpos
       THEN LET c == IF rightpos < endpos /\ ~TupleLt(At(heap, childpos), At(heap, rightpos))
                     THEN rightpos ELSE childpos
            IN siftup(SetAt(heap, pos, At(heap, c)), startpos, c, newitem)
       ELSE siftdown(SetAt(heap, pos, newitem), startpos, pos, newitem)

heappush(heap, item) ==
    LET h == Append(heap, item)
    IN siftdown(h, 0, Len(h) - 1, item)

\* heappop returns <<item, heap>>
heappop(heap) ==
    LET lastelt == heap[Len(heap)]
        rest == SubSeq(heap, 1, Len(heap) - 1)
    IN IF rest # <<>>
       THEN <<rest[1], siftup(SetAt(rest, 0, lastelt), 0, 0, lastelt)>>
       ELSE <<lastelt, rest>>

\* a queue entry keyed by the priority itself: the min-heap then serves the lowest first
QueueEntryNotNegated(priority, created_at, id) == <<priority, created_at, id>>

\* the tuple add_download, the retry and resume_download put on the queue
QueueEntry(priority, created_at, id) == <<-priority, created_at, id>>

\* a re-enqueued task whose priority is raised by one
QueueItemBoosted(id) == QueueEntry(tasks[id].priority + 1, tasks[id].created_at, id)

\* a re-enqueued task stamped with the time of the re-enqueue
QueueItemRestamped(id) == QueueEntry(tasks[id].priority, now, id)

QueueItem(id) == QueueEntry(tasks[id].priority, tasks[id].created_at, id)

QueueIds == {queue[i][3] : i \in 1..Len(queue)}

\* ---- DatabaseManager ----

\* a duplicate check whose query filters on a column that never holds the url
check_duplicate_wrong_column(url) == url \in {}

\* a duplicate check that also refuses the url of a job that failed or was cancelled
check_duplicate_or_given_up(url) ==
    \/ url \in db_history
    \/ \E id \in DOMAIN tasks :
           tasks[id].url = url /\ tasks[id].status \in {FAILED, CANCELLED}

\* a duplicate check that also refuses the url of a job that is queued, active or
\* paused
check_duplicate_or_in_engine(url) ==
    \/ url \in db_history
    \/ \E id \in DOMAIN tasks :
           /\ tasks[id].url = url
           /\ id \in QueueIds \cup active_downloads \cup paused_downloads

check_duplicate(url) == url \in db_history

\* download_history.url is unique: a second record of a url is refused, and
\* _execute_download logs the error
add_download_history(db, url) == db \cup {url}

update_queue_status(db, id, status) ==
    IF id \in DOMAIN db THEN [db EXCEPT ![id] = status] ELSE db

\* ---- the event bus ----
Event(name, id) == <<name, id>>

\* no subscriber callback is running
NoEvent == <<"none", UnknownId>>

\* no call of the interface returned in the last step
NoCall == [op |-> "none", arg |-> UnknownId, value |-> FALSE]

Init ==
    /\ tasks = <<>>
    /\ now = 1
    /\ queue = <<>>
    /\ active_downloads = {}
    /\ paused_downloads = {}
    /\ workers = <<>>
    /\ db_queue = <<>>
    /\ db_history = {}
    /\ events = {}
    /\ ncalls = 0
    /\ result = NoCall
    /\ shutdown = FALSE
    /\ metadata_cache = {}
    /\ info_calls = <<>>
    /\ callback = NoEvent

\* a start that creates one worker more than the configuration says
StartOneMore ==
    /\ workers = <<>>
    /\ workers' = [w \in 1..(max_workers + 1) |->
                      [pc |-> IF shutdown THEN "stopped" ELSE "get", task |-> UnknownId]]
    /\ UNCHANGED <<tasks, now, queue, active_downloads, paused_downloads,
                   db_queue, db_history, events, ncalls>>
    /\ result' = NoCall
    /\ UNCHANGED others

\* DownloadManager.start: a worker created after the shutdown event was set leaves
\* its loop at once ("while not self._shutdown_event.is_set()")
Start ==
    /\ workers = <<>>
    /\ workers' = [w \in 1..max_workers |->
                      [pc |-> IF shutdown THEN "stopped" ELSE "get", task |-> UnknownId]]
    /\ UNCHANGED <<tasks, now, queue, active_downloads, paused_downloads,
                   db_queue, db_history, events, ncalls>>
    /\ result' = NoCall
    /\ UNCHANGED others

\* DownloadManager.add_download(url, priority=priority)
add_download(url, priority) ==
    \/ /\ check_duplicate(url)
       /\ result' = [op |-> "add_download", arg |-> url, value |-> FALSE]
       /\ UNCHANGED others
       /\ UNCHANGED <<tasks, now, queue, active_downloads, paused_downloads,
                      workers, db_queue, db_history, events, ncalls>>
    \/ /\ ~check_duplicate(url)
       /\ LET id == Len(tasks) + 1
              task == [url |-> url, priority |-> priority, created_at |-> now,
                       status |-> PENDING, retry_count |-> 0,
                       content_type |-> None, progress |-> 0]
          IN /\ tasks' = Append(tasks, task)
             /\ now' = now + 1
             /\ db_queue' = Append(db_queue, PENDING)
             /\ queue' = heappush(queue, QueueEntry(priority, task.created_at, id))
             /\ events' = events \cup {Event("download:added", id)}
             /\ result' = [op |-> "add_download", arg |-> url, value |-> TRUE]
             /\ UNCHANGED others
       /\ UNCHANGED <<active_downloads, paused_downloads, workers, db_history, ncalls>>

\* ---- _download_worker / _execute_download ----

Idle == [pc |-> "get", task |-> UnknownId]

\* _download_worker: queue.get() returns, the worker claims the task and enters
\* _execute_download up to the first run_in_executor (ydl.extract_info)
Get(w) ==
    /\ w \in DOMAIN workers
    /\ workers[w].pc = "get"
    /\ queue # <<>>
    /\ LET popped == heappop(queue)
           id == popped[1][3]
       IN /\ queue' = popped[2]
          /\ active_downloads' = active_downloads \cup {id}
          /\ tasks' = [tasks EXCEPT ![id].status = DOWNLOADING]
          /\ db_queue' = update_queue_status(db_queue, id, DOWNLOADING)
          /\ workers' = [workers EXCEPT ![w] = [pc |-> "extract_info", task |-> id]]
    /\ UNCHANGED <<now, paused_downloads, db_history, events, ncalls>>
    /\ result' = NoCall
    /\ UNCHANGED others

\* the retry test off by one: a task that has failed retry_count times is retried
ShouldRetryOnceMore(count) == count <= retry_count

\* _execute_download: "if task.retry_count < self.config.retry_count"
ShouldRetry(count) == count < retry_count

\* _execute_download, the except branch: the attempt failed
Failed(w) ==
    LET id == workers[w].task
        t == [tasks EXCEPT ![id].status = FAILED,
                           ![id].retry_count = tasks[id].retry_count + 1]
    IN /\ tasks' = t
       /\ db_queue' = update_queue_status(db_queue, id, FAILED)
       /\ events' = events \cup {Event("download:failed", id)}
       /\ IF ShouldRetry(t[id].retry_count)
          THEN /\ workers' = [workers EXCEPT ![w].pc = "sleep"]
               /\ UNCHANGED active_downloads
          ELSE /\ workers' = [workers EXCEPT ![w] = Idle]
               /\ active_downloads' = active_downloads \ {id}
       /\ UNCHANGED <<now, queue, paused_downloads, db_history, ncalls>>
       /\ result' = NoCall
       /\ UNCHANGED others

\* _execute_download: ydl.extract_info returned the metadata
ExtractInfoOk(w) ==
    /\ w \in DOMAIN workers
    /\ workers[w].pc = "extract_info"
    /\ workers' = [workers EXCEPT ![w].pc = "download"]
    /\ UNCHANGED <<tasks, now, queue, active_downloads, paused_downloads,
                   db_queue, db_history, events, ncalls>>
    /\ result' = NoCall
    /\ UNCHANGED others

\* _execute_download: ydl.extract_info raised
ExtractInfoError(w) ==
    /\ w \in DOMAIN workers
    /\ workers[w].pc = "extract_info"
    /\ Failed(w)

\* the last step was a call _progress_hook(task_id, {'status': status})
Hook(task_id, status) ==
    [op |-> "_progress_hook", arg |-> task_id, value |-> TRUE, d |-> status]

\* a progress hook without its test "if task_id not in self.active_downloads"
ProgressHookDownloadingUnguarded(w) ==
    /\ w \in DOMAIN workers
    /\ workers[w].pc = "download"
    /\ \E percent \in Reports :
           tasks' = [tasks EXCEPT ![workers[w].task].progress = percent]
    /\ events' = events \cup {Event("progress", workers[w].task)}
    /\ result' = Hook(workers[w].task, "downloading")
    /\ UNCHANGED <<now, queue, active_downloads, paused_downloads, workers,
                   db_queue, db_history, ncalls, others>>

\* _progress_hook(task_id, {'status': 'downloading', ...}), called by ydl.download
\* during the transfer: the byte counts, progress, speed and eta of the task (one
\* field of the model, progress) are set from the report and 'progress' is emitted,
\* unless the task is not in active_downloads
ProgressHookDownloading(w) ==
    /\ w \in DOMAIN workers
    /\ workers[w].pc = "download"
    /\ \/ /\ workers[w].task \notin active_downloads
          /\ UNCHANGED <<tasks, events>>
       \/ /\ workers[w].task \in active_downloads
          /\ \E percent \in Reports :
                 tasks' = [tasks EXCEPT ![workers[w].task].progress = percent]
          /\ events' = events \cup {Event("progress", workers[w].task)}
    /\ result' = Hook(workers[w].task, "downloading")
    /\ UNCHANGED <<now, queue, active_downloads, paused_downloads, workers,
                   db_queue, db_history, ncalls, others>>

\* _progress_hook(task_id, {'status': 'finished'}): ydl.download reports the end of
\* the transfer before it post-processes the file and returns
ProgressHookFinished(w) ==
    /\ w \in DOMAIN workers
    /\ workers[w].pc = "download"
    /\ workers' = [workers EXCEPT ![w].pc = "postprocess"]
    /\ \/ /\ workers[w].task \notin active_downloads
          /\ UNCHANGED tasks
       \/ /\ workers[w].task \in active_downloads
          /\ tasks' = [tasks EXCEPT ![workers[w].task].status = PROCESSING,
                                    ![workers[w].task].progress = 100]
    /\ UNCHANGED <<now, queue, active_downloads, paused_downloads,
                   db_queue, db_history, events, ncalls>>
    /\ result' = Hook(workers[w].task, "finished")
    /\ UNCHANGED others

\* _execute_download: ydl.download returned; the task is completed, recorded in the
\* history, and _download_worker removes it from active_downloads
DownloadOk(w) ==
    /\ w \in DOMAIN workers
    /\ workers[w].pc = "postprocess"
    /\ LET id == workers[w].task
       IN /\ tasks' = [tasks EXCEPT ![id].status = COMPLETED, ![id].progress = 100]
          /\ db_queue' = update_queue_status(db_queue, id, COMPLETED)
          /\ db_history' = add_download_history(db_history, tasks[id].url)
          /\ events' = events \cup {Event("download:completed", id)}
          /\ active_downloads' = active_downloads \ {id}
          /\ workers' = [workers EXCEPT ![w] = Idle]
    /\ UNCHANGED <<now, queue, paused_downloads, ncalls>>
    /\ result' = NoCall
    /\ UNCHANGED others

\* _execute_download: ydl.download raised
DownloadError(w) ==
    /\ w \in DOMAIN workers
    /\ workers[w].pc \in {"download", "postprocess"}
    /\ Failed(w)

\* the backoff sleep is over and the task is not put back on the queue
RetryDropsTask(w) ==
    /\ w \in DOMAIN workers
    /\ workers[w].pc = "sleep"
    /\ active_downloads' = active_downloads \ {workers[w].task}
    /\ workers' = [workers EXCEPT ![w] = Idle]
    /\ UNCHANGED <<tasks, now, queue, paused_downloads, db_queue, db_history,
                   events, ncalls>>
    /\ result' = NoCall
    /\ UNCHANGED others

\* _execute_download: the backoff sleep is over; the task is put back on the queue
\* and _download_worker removes it from active_downloads
Retry(w) ==
    /\ w \in DOMAIN workers
    /\ workers[w].pc = "sleep"
    /\ LET id == workers[w].task
       IN /\ queue' = heappush(queue, QueueItem(id))
          /\ active_downloads' = active_downloads \ {id}
          /\ workers' = [workers EXCEPT ![w] = Idle]
    /\ UNCHANGED <<tasks, now, paused_downloads, db_queue, db_history, events, ncalls>>
    /\ result' = NoCall
    /\ UNCHANGED others

\* ---- the backoff in time ----

\* a backoff that starts at the base delay: base * 2^(attempts - 1)
delay_from_base(count) == 2 ^ (count - 1)

\* _execute_download: "await asyncio.sleep(2 ** task.retry_count)", in seconds
delay(count) == 2 ^ count

\* emit_event('download:failed', task.to_dict()): the dictionary carries the
\* retry_count and the completed_at of the task, which the except branch has set
FailedEvent(id, count, completed_at) ==
    <<"download:failed", id, [retry_count |-> count, completed_at |-> completed_at]>>

\* a second passes
Elapse ==
    /\ now < MaxBackoffTime
    /\ now' = now + 1
    /\ result' = NoCall
    /\ UNCHANGED <<tasks, queue, active_downloads, paused_downloads, workers,
                   db_queue, db_history, events, ncalls, others>>

\* _execute_download, the except branch with its times: the attempt failed at
\* completed_at = now, and a worker that retries sleeps until delay(retry_count)
\* seconds have passed
AttemptFails(w) ==
    /\ w \in DOMAIN workers
    /\ workers[w].pc \in {"extract_info", "download", "postprocess"}
    /\ LET id == workers[w].task
           t == [tasks EXCEPT ![id].status = FAILED,
                              ![id].retry_count = tasks[id].retry_count + 1]
       IN /\ tasks' = t
          /\ db_queue' = update_queue_status(db_queue, id, FAILED)
          /\ events' = events \cup {FailedEvent(id, t[id].retry_count, now)}
          /\ IF ShouldRetry(t[id].retry_count)
             THEN /\ workers' = [workers EXCEPT ![w] =
                         [pc |-> "sleep", task |-> id,
                          until |-> now + delay(t[id].retry_count)]]
                  /\ UNCHANGED active_downloads
             ELSE /\ workers' = [workers EXCEPT ![w] = Idle]
                  /\ active_downloads' = active_downloads \ {id}
    /\ UNCHANGED <<now, queue, paused_downloads, db_history, ncalls>>
    /\ result' = NoCall
    /\ UNCHANGED others

\* asyncio.sleep returns, not before the delay has passed, and the task is put back
\* on the queue
Wake(w) ==
    /\ w \in DOMAIN workers
    /\ workers[w].pc = "sleep"
    /\ now >= workers[w].until
    /\ Retry(w)

\* ---- pause / resume / cancel ----

Call(op, task_id, value) == [op |-> op, arg |-> task_id, value |-> value]

pause_download(task_id) ==
    /\ ncalls < MaxCalls
    /\ ncalls' = ncalls + 1
    /\ UNCHANGED others
    /\ \/ /\ task_id \in active_downloads
          /\ tasks' = [tasks EXCEPT ![task_id].status = PAUSED]
          /\ paused_downloads' = paused_downloads \cup {task_id}
          /\ active_downloads' = active_downloads \ {task_id}
          /\ db_queue' = update_queue_status(db_queue, task_id, PAUSED)
          /\ result' = Call("pause_download", task_id, TRUE)
          /\ UNCHANGED <<now, queue, workers, db_history, events>>
       \/ /\ task_id \notin active_downloads
          /\ result' = Call("pause_download", task_id, FALSE)
          /\ UNCHANGED <<tasks, now, queue, active_downloads, paused_downloads,
                         workers, db_queue, db_history, events>>

resume_download(task_id) ==
    /\ ncalls < MaxCalls
    /\ ncalls' = ncalls + 1
    /\ UNCHANGED others
    /\ \/ /\ task_id \in paused_downloads
          /\ tasks' = [tasks EXCEPT ![task_id].status = PENDING]
          /\ paused_downloads' = paused_downloads \ {task_id}
          /\ queue' = heappush(queue, QueueItem(task_id))
          /\ db_queue' = update_queue_status(db_queue, task_id, PENDING)
          /\ result' = Call("resume_download", task_id, TRUE)
          /\ UNCHANGED <<now, active_downloads, workers, db_history, events>>
       \/ /\ task_id \notin paused_downloads
          /\ result' = Call("resume_download", task_id, FALSE)
          /\ UNCHANGED <<tasks, now, queue, active_downloads, paused_downloads,
                         workers, db_queue, db_history, events>>

cancel_download(task_id) ==
    /\ ncalls < MaxCalls
    /\ ncalls' = ncalls + 1
    /\ UNCHANGED others
    /\ \/ /\ task_id \in active_downloads
          /\ tasks' = [tasks EXCEPT ![task_id].status = CANCELLED]
          /\ active_downloads' = active_downloads \ {task_id}
          /\ db_queue' = update_queue_status(db_queue, task_id, CANCELLED)
          /\ result' = Call("cancel_download", task_id, TRUE)
          /\ UNCHANGED <<now, queue, paused_downloads, workers, db_history, events>>
       \/ /\ task_id \notin active_downloads
          /\ task_id \in paused_downloads
          /\ paused_downloads' = paused_downloads \ {task_id}
          /\ db_queue' = update_queue_status(db_queue, task_id, CANCELLED)
          /\ result' = Call("cancel_download", task_id, TRUE)
          /\ UNCHANGED <<tasks, now, queue, active_downloads, workers, db_history, events>>
       \/ /\ task_id \notin active_downloads
          /\ task_id \notin paused_downloads
          /\ result' = Call("cancel_download", task_id, FALSE)
          /\ UNCHANGED <<tasks, now, queue, active_downloads, paused_downloads,
                         workers, db_queue, db_history, events>>

\* ---- get_download_status / get_active_downloads ----

\* DownloadTask.to_dict, for the fields of the model
to_dict(task_id) ==
    [id |-> task_id,
     url |-> tasks[task_id].url,
     status |-> tasks[task_id].status,
     priority |-> tasks[task_id].priority,
     retry_count |-> tasks[task_id].retry_count,
     content_type |-> tasks[task_id].content_type,
     progress |-> tasks[task_id].progress]

\* a status query that looks in active_downloads only
get_download_status_active_only(task_id) ==
    /\ result' = IF task_id \in active_downloads
                 THEN [op |-> "get_download_status", arg |-> task_id, value |-> TRUE,
                       snapshot |-> to_dict(task_id)]
                 ELSE Call("get_download_status", task_id, FALSE)
    /\ UNCHANGED <<tasks, now, queue, active_downloads, paused_downloads, workers,
                   db_queue, db_history, events, ncalls, others>>

\* DownloadManager.get_download_status(task_id): the dictionary of the task if it
\* is in active_downloads or in paused_downloads, None (value FALSE) otherwise
get_download_status(task_id) ==
    /\ result' = IF task_id \in active_downloads
                 THEN [op |-> "get_download_status", arg |-> task_id, value |-> TRUE,
                       snapshot |-> to_dict(task_id)]
                 ELSE IF task_id \in paused_downloads
                 THEN [op |-> "get_download_status", arg |-> task_id, value |-> TRUE,
                       snapshot |-> to_dict(task_id)]
                 ELSE Call("get_download_status", task_id, FALSE)
    /\ UNCHANGED <<tasks, now, queue, active_downloads, paused_downloads, workers,
                   db_queue, db_history, events, ncalls, others>>

\* DownloadManager.get_active_downloads(): the dictionaries of the tasks in
\* active_downloads (a list in the code, in the order of the dictionary; the model
\* keeps active_downloads as a set and returns the set)
get_active_downloads ==
    /\ result' = [op |-> "get_active_downloads", arg |-> UnknownId, value |-> TRUE,
                  snapshot |-> {to_dict(id) : id \in active_downloads}]
    /\ UNCHANGED <<tasks, now, queue, active_downloads, paused_downloads, workers,
                   db_queue, db_history, events, ncalls, others>>

\* ---- failures of the database ----

\* _execute_download: ydl.download returned and add_download_history raised; the
\* error is logged ("except Exception as db_error") and the task completes
DownloadOkHistoryError(w) ==
    /\ w \in DOMAIN workers
    /\ workers[w].pc = "postprocess"
    /\ LET id == workers[w].task
       IN /\ tasks' = [tasks EXCEPT ![id].status = COMPLETED, ![id].progress = 100]
          /\ db_queue' = update_queue_status(db_queue, id, COMPLETED)
          /\ events' = events \cup {Event("download:completed", id)}
          /\ active_downloads' = active_downloads \ {id}
          /\ workers' = [workers EXCEPT ![w] = Idle]
          /\ result' = Call("add_download_history", id, FALSE)
    /\ UNCHANGED <<now, queue, paused_downloads, db_history, ncalls, others>>

\* _execute_download: ydl.download returned and update_queue_status(task.id,
\* 'completed') raised inside the try block: the except branch makes the task
\* Failed and counts a retry. Its own update_queue_status(task.id, 'failed') then
\* succeeds, and the failure is emitted and retried as any other; or it raises
\* too, out of _execute_download into the "except Exception" of _download_worker,
\* which logs it and goes on to the next queue.get() without removing the task
\* from active_downloads
DownloadOkStatusError(w) ==
    /\ w \in DOMAIN workers
    /\ workers[w].pc = "postprocess"
    /\ LET id == workers[w].task
           t == [tasks EXCEPT ![id].status = FAILED,
                              ![id].progress = 100,
                              ![id].retry_count = tasks[id].retry_count + 1]
       IN /\ tasks' = t
          /\ result' = Call("update_queue_status", id, FALSE)
          /\ \/ /\ db_queue' = update_queue_status(db_queue, id, FAILED)
                /\ events' = events \cup {Event("download:failed", id)}
                /\ IF ShouldRetry(t[id].retry_count)
                   THEN /\ workers' = [workers EXCEPT ![w].pc = "sleep"]
                        /\ UNCHANGED active_downloads
                   ELSE /\ workers' = [workers EXCEPT ![w] = Idle]
                        /\ active_downloads' = active_downloads \ {id}
             \/ /\ workers' = [workers EXCEPT ![w] = Idle]
                /\ UNCHANGED <<db_queue, events, active_downloads>>
    /\ UNCHANGED <<now, queue, paused_downloads, db_history, ncalls, others>>

\* _download_worker: queue.get() returns, the worker puts the task in
\* active_downloads and makes it Downloading, and update_queue_status(task.id,
\* 'downloading') raises: the "except Exception" of the loop logs it and the worker
\* goes on to the next queue.get(); _execute_download is not called and the task is
\* not removed from active_downloads
GetStatusError(w) ==
    /\ w \in DOMAIN workers
    /\ workers[w].pc = "get"
    /\ queue # <<>>
    /\ LET popped == heappop(queue)
           id == popped[1][3]
       IN /\ queue' = popped[2]
          /\ active_downloads' = active_downloads \cup {id}
          /\ tasks' = [tasks EXCEPT ![id].status = DOWNLOADING]
          /\ result' = Call("update_queue_status", id, FALSE)
    /\ UNCHANGED <<now, paused_downloads, workers, db_queue, db_history, events,
                   ncalls, others>>

\* _execute_download, the except branch: the attempt failed, the task is made Failed
\* and a retry is counted, and update_queue_status(task.id, 'failed') raises, out of
\* _execute_download into the "except Exception" of _download_worker: no event, no
\* retry, and the task is not removed from active_downloads
FailedStatusError(w) ==
    /\ w \in DOMAIN workers
    /\ workers[w].pc \in {"extract_info", "download", "postprocess"}
    /\ LET id == workers[w].task
       IN /\ tasks' = [tasks EXCEPT ![id].status = FAILED,
                                    ![id].retry_count = tasks[id].retry_count + 1]
          /\ result' = Call("update_queue_status", id, FALSE)
    /\ workers' = [workers EXCEPT ![w] = Idle]
    /\ UNCHANGED <<now, queue, active_downloads, paused_downloads, db_queue,
                   db_history, events, ncalls, others>>

\* ---- slow subscribers of the event bus ----

\* EventBus.emit calls the callbacks of the subscribers one after the other in the
\* thread of the emitter: emit returns when the last callback has returned. The
\* actions above are the engine with callbacks that return at once; those below
\* emit to a subscriber whose callback takes its time, or never returns: callback
\* is the event it was called with.

\* the event loop runs no coroutine while a callback called from it has not returned
LoopBlocked == callback # NoEvent /\ callback[1] # "progress"

\* the executor thread of worker w is inside a callback of its progress hook
ThreadBlocked(w) ==
    /\ callback[1] = "progress"
    /\ workers[w].pc = "download"
    /\ workers[w].task = callback[2]

\* _execute_download: ydl.download returned; the task is completed and recorded, and
\* emit_event('download:completed') calls the callback of a slow subscriber
EmitCompleted(w) ==
    /\ w \in DOMAIN workers
    /\ workers[w].pc = "postprocess"
    /\ callback = NoEvent
    /\ LET id == workers[w].task
       IN /\ tasks' = [tasks EXCEPT ![id].status = COMPLETED, ![id].progress = 100]
          /\ db_queue' = update_queue_status(db_queue, id, COMPLETED)
          /\ db_history' = add_download_history(db_history, tasks[id].url)
          /\ events' = events \cup {Event("download:completed", id)}
          /\ callback' = Event("download:completed", id)
          /\ workers' = [workers EXCEPT ![w].pc = "emit"]
    /\ result' = NoCall
    /\ UNCHANGED <<now, queue, active_downloads, paused_downloads, ncalls,
                   shutdown, metadata_cache, info_calls>>

\* _progress_hook(task_id, {'status': 'downloading'}), called by ydl.download in the
\* thread of the executor: emit_event('progress') calls the callback of a slow
\* subscriber
EmitProgress(w) ==
    /\ w \in DOMAIN workers
    /\ workers[w].pc = "download"
    /\ workers[w].task \in active_downloads
    /\ callback = NoEvent
    /\ \E percent \in Reports :
           tasks' = [tasks EXCEPT ![workers[w].task].progress = percent]
    /\ events' = events \cup {Event("progress", workers[w].task)}
    /\ callback' = Event("progress", workers[w].task)
    /\ result' = Hook(workers[w].task, "downloading")
    /\ UNCHANGED <<now, queue, active_downloads, paused_downloads, workers,
                   db_queue, db_history, ncalls, shutdown, metadata_cache, info_calls>>

\* the callback returns, emit returns and the emitter goes on: the transfer in
\* its thread, or _execute_download to its return, after which _download_worker
\* removes the task from active_downloads
CallbackReturns ==
    /\ callback # NoEvent
    /\ callback' = NoEvent
    /\ IF callback[1] = "progress"
       THEN UNCHANGED <<workers, active_downloads>>
       ELSE /\ workers' = [w \in DOMAIN workers |->
                              IF workers[w].pc = "emit" THEN Idle ELSE workers[w]]
            /\ active_downloads' = active_downloads \ {callback[2]}
    /\ result' = NoCall
    /\ UNCHANGED <<tasks, now, queue, paused_downloads, db_queue, db_history,
                   events, ncalls, shutdown, metadata_cache, info_calls>>

\* a step of worker w that needs no callback to return: a step of its coroutine
\* when the event loop is free, of its transfer when its thread is
Continues(w) ==
    \/ ~LoopBlocked /\ Get(w)
    \/ ~LoopBlocked /\ ExtractInfoOk(w)
    \/ ~ThreadBlocked(w) /\ ProgressHookFinished(w)
    \/ ~ThreadBlocked(w) /\ EmitProgress(w)
    \/ ~LoopBlocked /\ DownloadOk(w)
    \/ ~LoopBlocked /\ EmitCompleted(w)

\* ---- stop ----

\* the workers whose transfer runs in a thread of the executor
Transferring == {w \in DOMAIN workers : workers[w].pc = "download"}

\* DownloadManager.stop: the shutdown event is set and every worker is cancelled; a
\* worker receives CancelledError at the await it is suspended in, which
\* _execute_download does not catch ("except Exception"), and leaves its loop
\* ("except asyncio.CancelledError: break") with its task as it is. stop then clears
\* the workers and waits for the threads of the executor: a transfer that finishes
\* there calls _progress_hook (the workers of the set finished)
stop ==
    /\ ~shutdown
    /\ shutdown' = TRUE
    /\ \E finished \in SUBSET Transferring :
           tasks' = [id \in DOMAIN tasks |->
                        IF /\ id \in active_downloads
                           /\ \E w \in finished : workers[w].task = id
                        THEN [tasks[id] EXCEPT !.status = PROCESSING, !.progress = 100]
                        ELSE tasks[id]]
    /\ workers' = <<>>
    /\ result' = NoCall
    /\ UNCHANGED <<now, queue, active_downloads, paused_downloads, db_queue,
                   db_history, events, ncalls, metadata_cache, info_calls, callback>>

\* ---- get_video_info and the metadata cache ----

\* time passes (one unit of the clock: 5 minutes)
Tick ==
    /\ now < MaxTime
    /\ now' = now + 1
    /\ result' = NoCall
    /\ UNCHANGED <<tasks, queue, active_downloads, paused_downloads, workers,
                   db_queue, db_history, events, ncalls, others>>

\* "url in self._metadata_cache"
Cached(url) == {e \in metadata_cache : e.url = url}

\* a lookup that serves whatever entry the cache holds
FreshForever(e, t) == e \in metadata_cache

\* get_video_info: "datetime.now() - cached_time < self._cache_duration"
Fresh(e, t) == t - e.cached_time < cache_duration

\* _cleanup_cache: "now - cached_time >= self._cache_duration"
Expired(e, t) == t - e.cached_time >= cache_duration

\* "self._metadata_cache[url] = (info, datetime.now())"
CachePut(cache, url, info, t) ==
    {e \in cache : e.url # url} \cup {[url |-> url, info |-> info, cached_time |-> t]}

\* get_video_info(url, use_cache=True) up to its return from the cache or to the
\* run_in_executor of ydl.extract_info
get_video_info(url) ==
    /\ Len(info_calls) < MaxInfoCalls
    /\ \/ \E e \in Cached(url) :
             /\ Fresh(e, now)
             /\ info_calls' = Append(info_calls,
                    [url |-> url, issued_at |-> now, pc |-> "returned",
                     from_cache |-> TRUE, info |-> e.info,
                     cached_time |-> e.cached_time, returned_at |-> now])
       \/ /\ \A e \in Cached(url) : ~Fresh(e, now)
          /\ info_calls' = Append(info_calls,
                    [url |-> url, issued_at |-> now, pc |-> "extract_info",
                     from_cache |-> FALSE, info |-> 0,
                     cached_time |-> 0, returned_at |-> 0])
    /\ result' = NoCall
    /\ UNCHANGED <<tasks, now, queue, active_downloads, paused_downloads, workers,
                   db_queue, db_history, events, ncalls,
                   shutdown, metadata_cache, callback>>

\* get_video_info: ydl.extract_info returned the metadata, as the Resolution Service
\* holds it at this time; it is cached under the current time and returned
VideoInfoExtracted(c) ==
    /\ c \in DOMAIN info_calls
    /\ info_calls[c].pc = "extract_info"
    /\ metadata_cache' = CachePut(metadata_cache, info_calls[c].url, now, now)
    /\ info_calls' = [info_calls EXCEPT ![c].pc = "returned", ![c].info = now,
                                        ![c].cached_time = now, ![c].returned_at = now]
    /\ result' = NoCall
    /\ UNCHANGED <<tasks, now, queue, active_downloads, paused_downloads, workers,
                   db_queue, db_history, events, ncalls, shutdown, callback>>

\* get_video_info: ydl.extract_info raised; the call raises and caches nothing
VideoInfoError(c) ==
    /\ c \in DOMAIN info_calls
    /\ info_calls[c].pc = "extract_info"
    /\ info_calls' = [info_calls EXCEPT ![c].pc = "raised", ![c].returned_at = now]
    /\ result' = NoCall
    /\ UNCHANGED <<tasks, now, queue, active_downloads, paused_downloads, workers,
                   db_queue, db_history, events, ncalls,
                   shutdown, metadata_cache, callback>>

\* _download_worker: queue.get() timed out on an idle worker, which cleans the cache
\* up ("if tasks_processed % 10 == 0: self._cleanup_cache()")
cleanup_cache ==
    /\ \E w \in DOMAIN workers : workers[w].pc = "get"
    /\ metadata_cache' = {e \in metadata_cache : ~Expired(e, now)}
    /\ result' = NoCall
    /\ UNCHANGED <<tasks, now, queue, active_downloads, paused_downloads, workers,
                   db_queue, db_history, events, ncalls,
                   shutdown, info_calls, callback>>

\* ---- add_channel_download ----

\* a member of a sub-category without a video id
NoId == "no id"

\* the outcome of ydl.extract_info on a sub-category: it raised, or it listed members
FetchError == <<"error">>
Members == {<<>>, <<NoId>>, <<"u1">>, <<"u2">>, <<"u1", "u2">>}
FetchOutcomes == {FetchError} \cup Members

\* _fetch_content_type: the entries of a sub-category; a fetch that raised is logged
\* and yields no entry
fetch_content_type(outcome) == IF outcome = FetchError THEN <<>> ELSE outcome

\* "content_type, content_name, entries, title = result": the entries of one
\* sub-category, each with the content_type of the sub-category
Tagged(content_type, entries) ==
    [i \in 1..Len(entries) |-> <<entries[i], content_type>>]

\* a fetch that raised ends the crawl of the sub-categories after it
EntriesUntilError(results) ==
    IF results[1] = FetchError THEN <<>>
    ELSE IF results[2] = FetchError THEN Tagged("video", results[1])
    ELSE IF results[3] = FetchError
         THEN Tagged("video", results[1]) \o Tagged("short", results[2])
    ELSE Tagged("video", results[1]) \o Tagged("short", results[2])
             \o Tagged("stream", results[3])

\* "for result in results: ... for i, entry in enumerate(entries)": the entries of
\* videos, shorts and streams in the order the loop visits them
Entries(results) ==
    Tagged("video", fetch_content_type(results[1]))
        \o Tagged("short", fetch_content_type(results[2]))
        \o Tagged("stream", fetch_content_type(results[3]))

\* a submission of the loop that does not pass the content_type on
AddedWithoutHint(st, url, priority, content_type) ==
    LET id == Len(st.tasks) + 1
        task == [url |-> url, priority |-> priority, created_at |-> st.now,
                 status |-> PENDING, retry_count |-> 0,
                 content_type |-> None, progress |-> 0]
    IN [tasks |-> Append(st.tasks, task),
        now |-> st.now + 1,
        db_queue |-> Append(st.db_queue, PENDING),
        queue |-> heappush(st.queue, QueueEntry(priority, task.created_at, id)),
        events |-> st.events \cup {Event("download:added", id)},
        all_tasks |-> Append(st.all_tasks, id)]

\* add_download(url, priority=priority, content_type=content_type) of the loop, on
\* the engine state st
Added(st, url, priority, content_type) ==
    LET id == Len(st.tasks) + 1
        task == [url |-> url, priority |-> priority, created_at |-> st.now,
                 status |-> PENDING, retry_count |-> 0,
                 content_type |-> content_type, progress |-> 0]
    IN [tasks |-> Append(st.tasks, task),
        now |-> st.now + 1,
        db_queue |-> Append(st.db_queue, PENDING),
        queue |-> heappush(st.queue, QueueEntry(priority, task.created_at, id)),
        events |-> st.events \cup {Event("download:added", id)},
        all_tasks |-> Append(st.all_tasks, id)]

\* the loop over the entries: an entry without id or already downloaded is skipped
RECURSIVE AddEntries(_, _, _)
AddEntries(st, entries, priority) ==
    IF entries = <<>> THEN st
    ELSE LET video_id == Head(entries)[1]
             content_type == Head(entries)[2]
         IN IF video_id = NoId \/ check_duplicate(video_id)
            THEN AddEntries(st, Tail(entries), priority)
            ELSE AddEntries(Added(st, video_id, priority, content_type),
                            Tail(entries), priority)

\* a crawl that found nothing to add returns the empty list
NeverNothingFound(all_tasks) == FALSE

\* "if not all_tasks: raise ValueError"
NothingFound(all_tasks) == all_tasks = <<>>

\* add_channel_download(channel_url, priority=priority) from the return of
\* asyncio.gather on: results are the outcomes of the three fetches
add_channel_download(results, priority) ==
    LET st == AddEntries([tasks |-> tasks, now |-> now, db_queue |-> db_queue,
                          queue |-> queue, events |-> events, all_tasks |-> <<>>],
                         Entries(results), priority)
    IN /\ tasks' = st.tasks
       /\ now' = st.now
       /\ db_queue' = st.db_queue
       /\ queue' = st.queue
       /\ IF NothingFound(st.all_tasks)
          THEN /\ events' = st.events
               /\ result' = [op |-> "add_channel_download", arg |-> results,
                             value |-> FALSE, all_tasks |-> <<>>,
                             priority |-> priority]
          ELSE /\ events' = st.events \cup
                      {<<"channel:added", [total_videos |-> Len(st.all_tasks),
                                           added_videos |-> Len(st.all_tasks)]>>}
               /\ result' = [op |-> "add_channel_download", arg |-> results,
                             value |-> TRUE, all_tasks |-> st.all_tasks,
                             priority |-> priority]
       /\ UNCHANGED <<active_downloads, paused_downloads, workers, db_history,
                      ncalls, others>>

\* the summary events of the crawls
Summaries(evs) == {e \in evs : e[1] = "channel:added"}

\* the client crawls a channel with priority 1 (the default is 5), as long as
\* fewer than n tasks were submitted and no crawl has succeeded
Crawl(n) ==
    /\ Len(tasks) < n
    /\ Summaries(events) = {}
    /\ \E results \in [1..3 -> FetchOutcomes] : add_channel_download(results, 1)

\* add_channel_download while the database is unavailable: check_duplicate raises
\* for every entry that has an id, which the loop counts in skipped_error; the
\* others are counted in skipped_no_id; all_tasks stays empty and the crawl raises
add_channel_download_db_error(results, priority) ==
    /\ result' = [op |-> "add_channel_download", arg |-> results,
                  value |-> FALSE, all_tasks |-> <<>>, priority |-> priority,
                  db_error |-> TRUE]
    /\ UNCHANGED <<tasks, now, queue, active_downloads, paused_downloads, workers,
                   db_queue, db_history, events, ncalls, others>>

\* the client crawls a channel while the database is unavailable; what the fetches
\* list makes no difference to a crawl that can submit nothing, and the three
\* sub-categories list the same here
CrawlDbError(n) ==
    /\ Len(tasks) < n
    /\ Summaries(events) = {}
    /\ \E outcome \in FetchOutcomes :
           add_channel_download_db_error(<<outcome, outcome, outcome>>, 1)

\* ---- add_playlist_download ----

\* a playlist that also raises when none of its entries has an id
PlaylistFailsWithoutId(outcome) ==
    \/ outcome = FetchError
    \/ \A i \in 1..Len(outcome) : outcome[i] = NoId

\* add_playlist_download raises when ydl.extract_info raised or returned nothing
\* ("Failed to fetch playlist information") and when the playlist has no entries
\* ("No videos found in playlist")
PlaylistFails(outcome) ==
    \/ outcome = FetchError
    \/ outcome = <<>>

\* add_playlist_download(playlist_url, priority=priority) from the return of
\* ydl.extract_info on: the entries are submitted without content_type, and the
\* summary is emitted and the list returned whatever the number of tasks added
add_playlist_download(outcome, priority) ==
    IF PlaylistFails(outcome)
    THEN /\ result' = [op |-> "add_playlist_download", arg |-> outcome,
                       value |-> FALSE, all_tasks |-> <<>>, priority |-> priority]
         /\ UNCHANGED <<tasks, now, queue, active_downloads, paused_downloads,
                        workers, db_queue, db_history, events, ncalls, others>>
    ELSE LET st == AddEntries([tasks |-> tasks, now |-> now, db_queue |-> db_queue,
                               queue |-> queue, events |-> events,
                               all_tasks |-> <<>>],
                              Tagged(None, outcome), priority)
         IN /\ tasks' = st.tasks
            /\ now' = st.now
            /\ db_queue' = st.db_queue
            /\ queue' = st.queue
            /\ events' = st.events \cup
                   {<<"playlist:added", [total_videos |-> Len(outcome),
                                         added_videos |-> Len(st.all_tasks)]>>}
            /\ result' = [op |-> "add_playlist_download", arg |-> outcome,
                          value |-> TRUE, all_tasks |-> st.all_tasks,
                          priority |-> priority]
            /\ UNCHANGED <<active_downloads, paused_downloads, workers, db_history,
                           ncalls, others>>

\* the summary events of the playlists
PlaylistSummaries(evs) == {e \in evs : e[1] = "playlist:added"}

\* the client adds a playlist with priority 1, as long as fewer than n tasks were
\* submitted and no playlist has been added
Playlist(n) ==
    /\ Len(tasks) < n
    /\ PlaylistSummaries(events) = {}
    /\ \E outcome \in FetchOutcomes : add_playlist_download(outcome, 1)

\* the client submits a url, as long as fewer than n tasks were submitted
Submit(n) ==
    /\ Len(tasks) < n
    /\ \E url \in Urls, priority \in Priorities : add_download(url, priority)

\* a worker takes a task, or its attempt goes on without failing
Work ==
    \/ \E w \in DOMAIN workers : Get(w)
    \/ \E w \in DOMAIN workers : ExtractInfoOk(w)
    \/ \E w \in DOMAIN workers : ProgressHookFinished(w)
    \/ \E w \in DOMAIN workers : DownloadOk(w)

\* an attempt fails, or the retry of a failed attempt is put on the queue
Fail ==
    \/ \E w \in DOMAIN workers : ExtractInfoError(w)
    \/ \E w \in DOMAIN workers : DownloadError(w)
    \/ \E w \in DOMAIN workers : Retry(w)

Next ==
    \/ Start
    \/ Submit(MaxTasks)
    \/ Work
    \/ Fail
    \/ \E task_id \in TaskIds \cup {UnknownId} : pause_download(task_id)
    \/ \E task_id \in TaskIds \cup {UnknownId} : resume_download(task_id)
    \/ \E task_id \in TaskIds \cup {UnknownId} : cancel_download(task_id)

\* the engine: start, submissions, workers, failures and retries, pause, resume
\* and cancel
Spec == Init /\ [][Next]_vars

\* the engine when the client never pauses, resumes or cancels
NextWorkers ==
    \/ Start
    \/ Submit(MaxTasks)
    \/ Work
    \/ Fail

SpecWorkers == Init /\ [][NextWorkers]_vars

\* the queue alone: submissions and workers whose attempts succeed
NextQueue ==
    \/ Start
    \/ Submit(MaxQueueTasks)
    \/ Work

SpecQueue == Init /\ [][NextQueue]_vars

\* submissions, workers whose attempts succeed, pause and resume
NextResume ==
    \/ Start
    \/ Submit(MaxTasks)
    \/ Work
    \/ \E task_id \in TaskIds \cup {UnknownId} : pause_download(task_id)
    \/ \E task_id \in TaskIds \cup {UnknownId} : resume_download(task_id)

SpecResume == Init /\ [][NextResume]_vars

\* the metadata cache: get_video_info calls, the clock and the cache clean-up of
\* idle workers
NextCache ==
    \/ Start
    \/ Tick
    \/ \E url \in Urls : get_video_info(url)
    \/ \E c \in 1..MaxInfoCalls : VideoInfoExtracted(c)
    \/ \E c \in 1..MaxInfoCalls : VideoInfoError(c)
    \/ cleanup_cache

SpecCache == Init /\ [][NextCache]_vars

\* the channel crawl: single submissions, crawls and workers whose attempts succeed
NextChannel ==
    \/ Start
    \/ Submit(MaxTasks)
    \/ Crawl(MaxTasks)
    \/ Work

SpecChannel == Init /\ [][NextChannel]_vars

\* the batches: single submissions, crawls of channels, with and without the
\* database, and of playlists, and workers whose attempts succeed
NextBatch ==
    \/ Start
    \/ Submit(MaxTasks)
    \/ Crawl(MaxTasks)
    \/ CrawlDbError(MaxTasks)
    \/ Playlist(MaxTasks)
    \/ Work

SpecBatch == Init /\ [][NextBatch]_vars

\* the shutdown: submissions, workers, failures and retries, stop and restart
NextShutdown ==
    \/ Start
    \/ Submit(MaxTasks)
    \/ Work
    \/ Fail
    \/ stop

SpecShutdown == Init /\ [][NextShutdown]_vars

\* the engine with a database that can fail when a download has succeeded
NextPersistence ==
    \/ Start
    \/ Submit(MaxTasks)
    \/ Work
    \/ Fail
    \/ \E w \in DOMAIN workers : DownloadOkHistoryError(w)
    \/ \E w \in DOMAIN workers : DownloadOkStatusError(w)

SpecPersistence == Init /\ [][NextPersistence]_vars

\* the engine with subscribers that are slow or never return
NextEvents ==
    \/ ~LoopBlocked /\ Start
    \/ ~LoopBlocked /\ Submit(MaxTasks)
    \/ \E w \in DOMAIN workers : Continues(w)
    \/ CallbackReturns

SpecEvents == Init /\ [][NextEvents]_vars

\* a step of worker w that ends a wait of its current attempt: ydl.extract_info or
\* ydl.download returns or raises, the transfer finishes, the backoff sleep is over
Returns(w) ==
    \/ ExtractInfoOk(w)
    \/ ExtractInfoError(w)
    \/ ProgressHookFinished(w)
    \/ DownloadOk(w)
    \/ DownloadError(w)
    \/ Retry(w)

\* SpecWorkers with the service started, the event loop scheduling every worker that
\* can take a task, and every call of yt-dlp and every sleep returning
SpecWorkersFair ==
    /\ SpecWorkers
    /\ WF_vars(Start)
    /\ \A w \in 1..max_workers : WF_vars(Get(w))
    /\ \A w \in 1..max_workers : WF_vars(Returns(w))

\* the status queries: submissions, workers whose attempts succeed, pause, and the
\* client polling
NextStatus ==
    \/ Start
    \/ Submit(MaxTasks)
    \/ Work
    \/ \E task_id \in TaskIds \cup {UnknownId} : pause_download(task_id)
    \/ \E task_id \in TaskIds \cup {UnknownId} : get_download_status(task_id)
    \/ get_active_downloads

SpecStatus == Init /\ [][NextStatus]_vars

\* the engine with a database that can fail when a worker claims a task or records
\* a failed attempt
NextClaim ==
    \/ Start
    \/ Submit(MaxTasks)
    \/ Work
    \/ Fail
    \/ \E w \in DOMAIN workers : GetStatusError(w)
    \/ \E w \in DOMAIN workers : FailedStatusError(w)

SpecClaim == Init /\ [][NextClaim]_vars

\* the progress reports: submissions, workers whose attempts succeed and report
\* their progress, pause and cancel
NextProgress ==
    \/ Start
    \/ Submit(MaxTasks)
    \/ Work
    \/ \E w \in DOMAIN workers : ProgressHookDownloading(w)
    \/ \E task_id \in TaskIds \cup {UnknownId} : pause_download(task_id)
    \/ \E task_id \in TaskIds \cup {UnknownId} : cancel_download(task_id)

SpecProgress == Init /\ [][NextProgress]_vars

\* the backoff in time: submissions, workers, attempts that fail at a time and
\* are retried after their sleep, and the clock
NextBackoff ==
    \/ Start
    \/ Submit(MaxBackoffTasks)
    \/ Work
    \/ \E w \in DOMAIN workers : AttemptFails(w)
    \/ \E w \in DOMAIN workers : Wake(w)
    \/ Elapse

SpecBackoff == Init /\ [][NextBackoff]_vars

\* ---- properties ----

\* worker w takes a task from the queue in this step
Dequeues(w) ==
    /\ w \in DOMAIN workers
    /\ workers[w].pc = "get"
    /\ workers'[w].pc # "get"

\* number of entries of the queue that hold task id
InQueue(q, id) == Cardinality({i \in 1..Len(q) : q[i][3] = id})

\* C1: every dequeue of a worker returns a task of the queue, removes one entry of
\* it, and no task then in the queue has a higher priority, or the same priority
\* and an earlier created_at
C1_DequeueHighestPriorityThenOldest ==
    [][\A w \in 1..max_workers : Dequeues(w) =>
          LET d == workers'[w].task
          IN /\ InQueue(queue, d) > 0
             /\ \A id \in DOMAIN tasks :
                    InQueue(queue', id) = InQueue(queue, id) - (IF id = d THEN 1 ELSE 0)
             /\ \A id \in QueueIds :
                    /\ tasks[id].priority <= tasks[d].priority
                    /\ tasks[id].priority = tasks[d].priority
                           => tasks[d].created_at <= tasks[id].created_at]_vars

\* C1 witness: tasks 1, 2, 3 were submitted with priorities 1, 5, 5; task 2 was
\* dequeued and completed, task 3 was dequeued next, task 1 is still in the queue
C1_Witness ==
    /\ Len(tasks) = 3
    /\ tasks[1].priority = 1 /\ tasks[2].priority = 5 /\ tasks[3].priority = 5
    /\ tasks[2].status = COMPLETED
    /\ tasks[3].status = DOWNLOADING
    /\ tasks[1].status = PENDING
    /\ QueueIds = {1}

\* C2: no task id is in more than one of the task queue, active_downloads and
\* paused_downloads
C2_AtMostOneOwner ==
    \A id \in DOMAIN tasks :
        /\ ~(id \in QueueIds /\ id \in active_downloads)
        /\ ~(id \in QueueIds /\ id \in paused_downloads)
        /\ ~(id \in active_downloads /\ id \in paused_downloads)

\* the status changes of the lifecycle graph; a task becomes Failed only when its
\* retries are exhausted, a failed attempt that is retried makes it Pending
Lifecycle(old, new, exhausted) ==
    \/ old = PENDING /\ new = DOWNLOADING
    \/ old = DOWNLOADING /\ new = PROCESSING
    \/ old = PROCESSING /\ new = COMPLETED
    \/ old \in {DOWNLOADING, PROCESSING} /\ new = FAILED /\ exhausted
    \/ old \in {DOWNLOADING, PROCESSING} /\ new \in {PENDING, PAUSED}
    \/ old = PAUSED /\ new = PENDING
    \/ old \in {PENDING, DOWNLOADING, PROCESSING, PAUSED} /\ new = CANCELLED

\* C3: every change of a task's status is a transition of the lifecycle graph
C3_StatusFollowsLifecycle ==
    [][\A id \in DOMAIN tasks :
          tasks'[id].status # tasks[id].status =>
              Lifecycle(tasks[id].status, tasks'[id].status,
                        tasks'[id].retry_count >= retry_count)]_vars

\* Completed, Cancelled, or Failed with the retries exhausted
Terminal(t) ==
    \/ t.status \in {COMPLETED, CANCELLED}
    \/ t.status = FAILED /\ t.retry_count >= retry_count

\* C4: no step changes the status of a task that is terminal, or puts the task
\* on the queue
C4_TerminalIsFinal ==
    [][\A id \in DOMAIN tasks :
          Terminal(tasks[id]) =>
              /\ tasks'[id].status = tasks[id].status
              /\ InQueue(queue', id) <= InQueue(queue, id)]_vars

\* the workers that hold task id, and those that wait out its retry backoff
Holders(id) == {w \in DOMAIN workers : workers[w].task = id}
Sleepers(id) == {w \in Holders(id) : workers[w].pc = "sleep"}

\* C5: (the client never pauses or cancels) a task fails at most retry_count times;
\* as long as it has failed fewer times and is Failed, its retry is pending: a worker
\* waits out the backoff or the task is back on the queue; once it has failed
\* retry_count times it is Failed, off the queue, held by no worker and not active
C5_RetryTermination ==
    \A id \in DOMAIN tasks :
        /\ tasks[id].retry_count <= retry_count
        /\ InQueue(queue, id) + Cardinality(Holders(id)) <= 1
        /\ tasks[id].status = FAILED /\ tasks[id].retry_count < retry_count
               => InQueue(queue, id) + Cardinality(Sleepers(id)) = 1
        /\ tasks[id].retry_count = retry_count
               => /\ tasks[id].status = FAILED
                  /\ InQueue(queue, id) = 0
                  /\ Holders(id) = {}
                  /\ id \notin active_downloads

\* C5 witness: a task has failed retry_count times
C5_Witness ==
    \E id \in DOMAIN tasks :
        /\ tasks[id].retry_count = retry_count
        /\ tasks[id].status = FAILED

\* C6: an add_download of a url the history records returns the duplicate error and
\* changes nothing: no task, no queue entry, no queue record, no event
C6_DuplicateRejected ==
    [][result'.op = "add_download" /\ result'.arg \in db_history =>
          /\ result'.value = FALSE
          /\ UNCHANGED <<tasks, queue, active_downloads, paused_downloads,
                         db_queue, db_history, events>>]_vars

\* C6 witness: add_download of a recorded url has just been refused
C6_Witness ==
    /\ result.op = "add_download"
    /\ result.arg \in db_history
    /\ result.value = FALSE

\* the last step was a call op(task_id) of pause / resume / cancel
Called(op, task_id) == result'.op = op /\ result'.arg = task_id

\* op is a transition of the lifecycle graph for a task of this status
Legal(op, t) ==
    \/ op = "pause_download" /\ t.status \in {DOWNLOADING, PROCESSING}
    \/ op = "resume_download" /\ t.status = PAUSED
    \/ op = "cancel_download" /\ ~Terminal(t)

\* C7: pause, resume or cancel of an unknown id, or of a task for which it is no
\* transition of the lifecycle, returns False and changes neither the tasks nor
\* the queue, active_downloads and paused_downloads
C7_IllegalTransitionRejected ==
    [][\A op \in {"pause_download", "resume_download", "cancel_download"} :
       \A task_id \in TaskIds \cup {UnknownId} :
          Called(op, task_id)
          /\ (task_id \notin DOMAIN tasks \/ ~Legal(op, tasks[task_id]))
          => /\ result'.value = FALSE
             /\ UNCHANGED <<tasks, queue, active_downloads, paused_downloads>>]_vars

\* C8: cancel of a task that is Pending on the queue returns True and takes the
\* task off the queue
C8_CancelPendingRemovesFromQueue ==
    [][\A task_id \in DOMAIN tasks :
          Called("cancel_download", task_id)
          /\ tasks[task_id].status = PENDING
          /\ InQueue(queue, task_id) > 0
          => /\ result'.value = TRUE
             /\ InQueue(queue', task_id) = 0]_vars

\* C9: when cancel_download has just returned True, the task is Cancelled and in
\* none of the queue, active_downloads and paused_downloads
C9_CancelledAfterCancel ==
    result.op = "cancel_download" /\ result.value = TRUE =>
        /\ tasks[result.arg].status = CANCELLED
        /\ InQueue(queue, result.arg) = 0
        /\ result.arg \notin active_downloads
        /\ result.arg \notin paused_downloads

\* C10: no step changes a task's priority or created_at; resume_download puts the
\* task on the queue under that priority and created_at; and a dequeue never
\* returns a task while a task of the same priority and an earlier created_at is
\* in the queue
C10_ResumeKeepsPlace ==
    [][/\ \A id \in DOMAIN tasks :
              /\ tasks'[id].priority = tasks[id].priority
              /\ tasks'[id].created_at = tasks[id].created_at
       /\ \A task_id \in DOMAIN tasks :
              Called("resume_download", task_id) /\ result'.value = TRUE =>
                  /\ InQueue(queue', task_id) = InQueue(queue, task_id) + 1
                  /\ \E i \in 1..Len(queue') :
                         queue'[i] = <<-tasks[task_id].priority,
                                       tasks[task_id].created_at, task_id>>
                  /\ \A i \in 1..Len(queue') :
                         queue'[i][3] = task_id =>
                             queue'[i][2] = tasks[task_id].created_at
       /\ \A w \in 1..max_workers : Dequeues(w) =>
              \A id \in QueueIds :
                  tasks[id].priority = tasks[workers'[w].task].priority
                      => tasks[workers'[w].task].created_at <= tasks[id].created_at]_vars

\* C10 witness: task 1 has just been resumed while task 2, submitted after it with
\* the same priority, is in the queue: task 1 is the head of the queue
C10_Witness ==
    /\ result = Call("resume_download", 1, TRUE)
    /\ 2 \in QueueIds
    /\ tasks[2].priority = tasks[1].priority
    /\ queue[1][3] = 1

\* calls i and j of get_video_info are for the same url, j was issued after i with
\* no call for that url in between, and both have returned
Successive(i, j) ==
    /\ i < j
    /\ info_calls[i].url = info_calls[j].url
    /\ info_calls[i].pc = "returned"
    /\ info_calls[j].pc = "returned"
    /\ \A k \in DOMAIN info_calls : i < k /\ k < j => info_calls[k].url # info_calls[i].url

\* the number of ydl.extract_info invocations the calls of the set made
Invocations(calls) == Cardinality({c \in calls : ~info_calls[c].from_cache})

\* C11: of two successive get_video_info calls for a url, the second issued within
\* the cache TTL of the first, ydl.extract_info is invoked once in total; the second
\* issued more than the TTL after the first, it is invoked twice
C11_CacheTtl ==
    \A i, j \in DOMAIN info_calls :
        Successive(i, j) =>
            /\ info_calls[j].issued_at - info_calls[i].issued_at < cache_duration
                   => Invocations({i, j}) = 1
            /\ info_calls[j].issued_at - info_calls[i].issued_at > cache_duration
                   => Invocations({i, j}) = 2

\* every call served from the cache was served an entry younger than the TTL
ServedFresh ==
    \A c \in DOMAIN info_calls :
        info_calls[c].from_cache =>
            info_calls[c].issued_at - info_calls[c].cached_time < cache_duration

\* call j was served from the cache the value call i extracted
ServedValueOf(i, j) ==
    /\ i < j
    /\ info_calls[i].url = info_calls[j].url
    /\ info_calls[i].pc = "returned"
    /\ ~info_calls[i].from_cache
    /\ info_calls[j].from_cache
    /\ info_calls[j].info = info_calls[i].info

Crawled == result'.op = "add_channel_download"

\* the members sub-category k of the crawl listed (none when its fetch failed)
Listed(results, k) == IF results[k] = FetchError THEN <<>> ELSE results[k]

\* the members the crawl discovered, across the sub-categories
Discovered(results) == Listed(results, 1) \o Listed(results, 2) \o Listed(results, 3)

\* a member that has a video id and is not in the download history
IsNew(entry) == entry # NoId /\ entry \notin db_history

\* the urls of the jobs a crawl returned
JobUrls(jobs) == [i \in 1..Len(jobs) |-> tasks'[jobs[i]].url]

C14_NothingFoundRaises ==
    [][Crawled /\ Discovered(result'.arg) = <<>>
       => /\ result'.value = FALSE
          /\ result'.all_tasks = <<>>
          /\ UNCHANGED <<tasks, queue, db_queue, events>>]_vars

\* C14 witness: a crawl with a failed fetch and two empty sub-categories has raised
C14_Witness ==
    /\ result.op = "add_channel_download"
    /\ result.arg[1] = <<>>
    /\ result.arg[2] = FetchError
    /\ result.arg[3] = <<>>
    /\ result.value = FALSE

\* the number of members of the sequence that are duplicates of the history
Duplicates(entries) ==
    Cardinality({i \in 1..Len(entries) : entries[i] \in db_history})

\* C15: a successful crawl emits exactly one summary event, which reports as found
\* the number of members discovered, as added the number of jobs submitted and as
\* skipped the number of members that were duplicates
C15_SummaryCounts ==
    [][Crawled /\ result'.value = TRUE
       => /\ Cardinality(Summaries(events') \ Summaries(events)) = 1
          /\ \A e \in Summaries(events') \ Summaries(events) :
                 /\ e[2].total_videos = Len(Discovered(result'.arg))
                 /\ e[2].added_videos = Len(result'.all_tasks)
                 /\ "skipped_duplicate" \in DOMAIN e[2]
                 /\ e[2].skipped_duplicate = Duplicates(Discovered(result'.arg))]_vars

\* C16: once the shutdown event is set, an add_download call enqueues no job: it
\* creates no task and puts nothing on the queue
C16_NoJobAfterShutdown ==
    [][shutdown /\ result'.op = "add_download"
       => UNCHANGED <<tasks, queue, db_queue>>]_vars

\* C17: stop interrupts no worker that executes a job: after stop every job of
\* active_downloads is still held by a worker, which finishes the operation, takes
\* the job out of active_downloads and only then exits
C17_StopLetsWorkersFinish ==
    shutdown => \A id \in active_downloads : Holders(id) # {}

\* C18: when update_queue_status('completed') or add_download_history raises after
\* the transfer of a job succeeded, the job is Completed, its retry count is not
\* raised and it is neither put back on the queue nor waiting for a retry
C18_PersistenceFailureKeepsCompleted ==
    [][result'.op \in {"update_queue_status", "add_download_history"}
       /\ result'.value = FALSE
       => /\ tasks'[result'.arg].status = COMPLETED
          /\ tasks'[result'.arg].retry_count = tasks[result'.arg].retry_count
          /\ InQueue(queue', result'.arg) = InQueue(queue, result'.arg)
          /\ \A w \in DOMAIN workers' :
                 ~(workers'[w].task = result'.arg /\ workers'[w].pc = "sleep")]_vars

\* the workers that have something to do: a job in hand, or none and a job waiting
\* in the queue
Busy == {w \in DOMAIN workers :
            workers[w].pc # "get" \/ (workers[w].pc = "get" /\ queue # <<>>)}

\* C19: while the callback of a subscriber has not returned, every worker that has
\* something to do can take its next step: go on with its job or dequeue the next
C19_NoBackPressure ==
    callback # NoEvent => \A w \in Busy : ENABLED Continues(w)

\* the workers that execute a job: past their dequeue and not yet back from
\* _execute_download
Executing == {w \in DOMAIN workers : workers[w].pc \notin {"get", "stopped"}}

\* C20: at most max_workers jobs are being executed, and active_downloads holds at
\* most max_workers jobs, each of them in the hands of a worker
C20_AtMostMaxWorkers ==
    /\ Cardinality(Executing) <= max_workers
    /\ Cardinality(active_downloads) <= max_workers
    /\ \A id \in active_downloads : \E w \in Executing : workers[w].task = id

\* C20 witness: every worker executes a job, active_downloads is full, and a job
\* waits in the queue
C20_Witness ==
    /\ Cardinality(Executing) = max_workers
    /\ Cardinality(active_downloads) = max_workers
    /\ queue # <<>>

\* the job is Completed or Failed with its retries exhausted, and in none of the
\* queue, active_downloads and paused_downloads
Settled(id) ==
    /\ id \in DOMAIN tasks
    /\ \/ tasks[id].status = COMPLETED
       \/ tasks[id].status = FAILED /\ tasks[id].retry_count >= retry_count
    /\ InQueue(queue, id) = 0
    /\ id \notin active_downloads
    /\ id \notin paused_downloads

\* C21: (yt-dlp always returns, workers are scheduled fairly, no pause, cancel or
\* stop) every job add_download accepted is eventually Completed or Failed with
\* its retries exhausted, in none of the queue, active_downloads and
\* paused_downloads, and stays so
C21_EveryJobSettles ==
    \A id \in 1..MaxTasks : [](id \in DOMAIN tasks => <>[]Settled(id))

\* C21 witness: one job is settled as Completed and another as Failed with its
\* retries exhausted
C21_Witness ==
    /\ \E id \in DOMAIN tasks : Settled(id) /\ tasks[id].status = COMPLETED
    /\ \E id \in DOMAIN tasks : Settled(id) /\ tasks[id].status = FAILED

\* C22: the event 'download:failed' is emitted for a job only when its retries are
\* exhausted: a failed attempt that is going to be retried emits none
C22_FailureEventOnlyWhenTerminal ==
    [][\A id \in DOMAIN tasks :
          Event("download:failed", id) \in events' \ events
              => tasks'[id].retry_count >= retry_count]_vars

\* the job is in none of the queue, active_downloads and paused_downloads
Unowned(id) ==
    /\ InQueue(queue, id) = 0
    /\ id \notin active_downloads
    /\ id \notin paused_downloads

\* C23: every job that is in none of the queue, active_downloads and
\* paused_downloads is Completed, Cancelled, or Failed with its retries exhausted
C23_UnownedIsTerminal ==
    \A id \in DOMAIN tasks : Unowned(id) => Terminal(tasks[id])

\* C24: every job in the queue is Pending, a job re-pushed by the retry included
C24_QueuedIsPending ==
    \A id \in QueueIds : tasks[id].status = PENDING

\* C25: every job of active_downloads is Downloading or Processing, and every job
\* of paused_downloads is Paused
C25_SetsMatchStatus ==
    /\ \A id \in active_downloads : tasks[id].status \in {DOWNLOADING, PROCESSING}
    /\ \A id \in paused_downloads : tasks[id].status = PAUSED

\* C26: pause_download returns True only for a job that is Downloading or
\* Processing when it is called
C26_PauseOnlyWhenRunning ==
    [][\A task_id \in TaskIds \cup {UnknownId} :
          Called("pause_download", task_id) /\ result'.value = TRUE
              => /\ task_id \in DOMAIN tasks
                 /\ tasks[task_id].status \in {DOWNLOADING, PROCESSING}]_vars

\* C27: no job is executed by two workers at once
C27_OneWorkerPerJob ==
    \A id \in DOMAIN tasks : Cardinality(Holders(id)) <= 1

\* the entries of queue q that hold task id
EntriesOf(q, id) == {q[i] : i \in {j \in 1..Len(q) : q[j][3] = id}}

\* C28: no step changes the url, the priority or the created_at of a job, or the
\* id it is known by; and every entry of the queue, those the retry and
\* resume_download put there included, holds its job under the priority and the
\* created_at of its submission
C28_RepushKeepsKey ==
    [][/\ Len(tasks') >= Len(tasks)
       /\ \A id \in DOMAIN tasks :
              /\ tasks'[id].url = tasks[id].url
              /\ tasks'[id].priority = tasks[id].priority
              /\ tasks'[id].created_at = tasks[id].created_at
              /\ EntriesOf(queue', id) \subseteq
                     {<<-tasks[id].priority, tasks[id].created_at, id>>}]_vars

\* C28 witness: a job that failed once was paused during its backoff, put back on
\* the queue by the retry and once more by resume_download
C28_Witness ==
    \E id \in DOMAIN tasks :
        /\ tasks[id].retry_count = 1
        /\ result = Call("resume_download", id, TRUE)
        /\ InQueue(queue, id) = 2

\* C29: a worker whose job waits out its retry backoff can dequeue a job that is
\* in the queue
C29_BackoffFreesWorker ==
    \A w \in DOMAIN workers :
        workers[w].pc = "sleep" /\ queue # <<>> => ENABLED Get(w)

\* C30: a job cancelled while it waits out its retry backoff is not put back on the
\* queue when the wait is over
C30_CancelAbandonsBackoff ==
    [][\A w \in DOMAIN workers :
          workers[w].pc = "sleep" /\ tasks[workers[w].task].status = CANCELLED
              => InQueue(queue', workers[w].task) <= InQueue(queue, workers[w].task)]_vars

\* C32: the retry_count of a job never exceeds config.retry_count, whatever the
\* interleaving of failures with pause, resume and cancel
C32_AttemptCapIsHard ==
    \A id \in DOMAIN tasks : tasks[id].retry_count <= retry_count

\* this step is a call of add_download
Submitted == result'.op = "add_download"

\* C34: add_download is refused exactly when the history holds a record for the
\* url; a record for a url is written exactly by the steps that complete a job for
\* it and none is ever removed, so that the url of jobs that only failed or were
\* cancelled is accepted again
C34_DuplicateIffHistory ==
    [][/\ Submitted => (result'.value = FALSE <=> result'.arg \in db_history)
       /\ \A url \in Urls :
              url \in db_history' \ db_history =>
                  \E id \in DOMAIN tasks :
                      /\ tasks[id].url = url
                      /\ tasks'[id].status = COMPLETED
       /\ db_history \subseteq db_history']_vars

\* C34 witness: a url is submitted again and accepted after its first job failed
\* for good
C34_Witness ==
    /\ result.op = "add_download"
    /\ result.value = TRUE
    /\ Len(tasks) = 2
    /\ tasks[1].url = result.arg
    /\ tasks[2].url = result.arg
    /\ tasks[1].status = FAILED
    /\ tasks[1].retry_count = retry_count

\* the cancelled case of C34: a url is submitted again and accepted after its
\* first job was cancelled
C34_Cancelled ==
    /\ result.op = "add_download"
    /\ result.value = TRUE
    /\ Len(tasks) = 2
    /\ tasks[1].url = result.arg
    /\ tasks[1].status = CANCELLED

\* C36: after stop() and start() the pool runs again: the workers start() created
\* are in their loop, ready to dequeue
C36_RestartRevivesPool ==
    \A w \in DOMAIN workers : workers[w].pc # "stopped"

\* the jobs for the url that the engine holds in the queue, active_downloads or
\* paused_downloads
InEngine(url) ==
    {id \in DOMAIN tasks :
        /\ tasks[id].url = url
        /\ id \in QueueIds \cup active_downloads \cup paused_downloads}

\* C38: add_download of a url without history record is accepted whatever jobs the
\* engine holds for the url: it creates one job with a new id for the url, puts it
\* on the queue and leaves the other jobs and their queue entries as they are
C38_SecondJobForSameUrl ==
    [][Submitted /\ result'.arg \notin db_history =>
          /\ result'.value = TRUE
          /\ Len(tasks') = Len(tasks) + 1
          /\ tasks'[Len(tasks')].url = result'.arg
          /\ tasks'[Len(tasks')].status = PENDING
          /\ InQueue(queue', Len(tasks')) = 1
          /\ \A id \in DOMAIN tasks :
                 /\ tasks'[id] = tasks[id]
                 /\ InQueue(queue', id) = InQueue(queue, id)
          /\ UNCHANGED <<active_downloads, paused_downloads>>]_vars

\* C38 witness: a second job for a url has just been accepted while the first job
\* for it is paused
C38_Witness ==
    /\ result.op = "add_download"
    /\ result.value = TRUE
    /\ Len(tasks) = 2
    /\ tasks[1].url = tasks[2].url
    /\ 1 \in paused_downloads
    /\ InEngine(result.arg) = {1, 2}
    /\ tasks[2].status = PENDING

\* C39: get_download_status(id) returns a snapshot, the one of job id as it is now,
\* exactly when id is in active_downloads or paused_downloads, and None for every
\* other id, a job waiting in the queue or a finished one included;
\* get_active_downloads returns the snapshots of exactly the jobs in
\* active_downloads; neither changes the engine
C39_StatusOfHeldJobsOnly ==
    [][/\ result'.op = "get_download_status" =>
              /\ result'.value = TRUE
                     <=> result'.arg \in active_downloads \cup paused_downloads
              /\ result'.value = TRUE =>
                     /\ result'.snapshot.id = result'.arg
                     /\ result'.snapshot.status = tasks[result'.arg].status
                     /\ result'.snapshot.url = tasks[result'.arg].url
       /\ result'.op = "get_active_downloads" =>
              {d.id : d \in result'.snapshot} = active_downloads
       /\ result'.op \in {"get_download_status", "get_active_downloads"} =>
              UNCHANGED <<tasks, queue, active_downloads, paused_downloads,
                          workers, db_queue, db_history, events>>]_vars

\* C39 witness: the query of a paused job has returned its snapshot while the
\* other job waits in the queue
C39_Witness ==
    /\ result.op = "get_download_status"
    /\ result.value = TRUE
    /\ result.arg \in paused_downloads
    /\ result.snapshot.status = PAUSED
    /\ \E id \in QueueIds : tasks[id].status = PENDING

\* the not-found case of C39: the query of a job that waits in the queue has
\* returned None
C39_PendingNotFound ==
    /\ result.op = "get_download_status"
    /\ result.value = FALSE
    /\ result.arg \in QueueIds
    /\ tasks[result.arg].status = PENDING

\* C33: a job is never stranded: whenever a job is in active_downloads a worker
\* holds it, executing it or sleeping before its retry, so that the job goes on to
\* leave active_downloads, even if update_queue_status raised when the job was
\* claimed or when a failed attempt was recorded
C33_NoStrandedJob ==
    \A id \in active_downloads : Holders(id) # {}

\* C40: a call of _progress_hook, 'downloading' or 'finished', for a job that is
\* not in active_downloads changes no field of any job and emits no event
C40_HookOfReleasedJobIsNoOp ==
    [][result'.op = "_progress_hook" /\ result'.arg \notin active_downloads
          => UNCHANGED <<tasks, events, queue, active_downloads, paused_downloads>>]_vars

\* C40 witness: the transfer of a paused job has reported its progress and the job
\* is as it was paused, its progress 0 and no progress event emitted
C40_Witness ==
    /\ result.op = "_progress_hook"
    /\ result.d = "downloading"
    /\ result.arg \in paused_downloads
    /\ tasks[result.arg].status = PAUSED
    /\ tasks[result.arg].progress = 0
    /\ Event("progress", result.arg) \notin events

\* the 'finished' case of C40: the transfer of a cancelled job has reported its end
\* and the job is still Cancelled
C40_FinishedAfterCancel ==
    /\ result.op = "_progress_hook"
    /\ result.d = "finished"
    /\ tasks[result.arg].status = CANCELLED
    /\ tasks[result.arg].progress = 0

\* the members the crawl discovered, each with the content_type of its
\* sub-category
Hinted(results) ==
    [i \in 1..Len(Listed(results, 1)) |-> <<Listed(results, 1)[i], "video">>]
        \o [i \in 1..Len(Listed(results, 2)) |-> <<Listed(results, 2)[i], "short">>]
        \o [i \in 1..Len(Listed(results, 3)) |-> <<Listed(results, 3)[i], "stream">>]

\* a member with its content_type that has a video id and is not in the history
IsNewMember(member) == IsNew(member[1])

\* C35: a crawl creates no task for a member whose url is in the download
\* history, and for the other members that have an id one task each, in their
\* order, with the member's url, the content_type of its sub-category and the
\* priority of the crawl, once on the queue
C35_MembersBecomeHintedJobs ==
    [][Crawled
       => LET wanted == SelectSeq(Hinted(result'.arg), IsNewMember)
          IN /\ Len(tasks') = Len(tasks) + Len(wanted)
             /\ \A i \in 1..Len(wanted) :
                    LET id == Len(tasks) + i
                    IN /\ tasks'[id].url = wanted[i][1]
                       /\ tasks'[id].content_type = wanted[i][2]
                       /\ tasks'[id].priority = result'.priority
                       /\ InQueue(queue', id) = 1
             /\ \A id \in DOMAIN tasks' \ DOMAIN tasks :
                    tasks'[id].url \notin db_history]_vars

\* C35 witness: a crawl that listed a video already in the history and a new short
\* has returned one job, of content_type short and priority 1
C35_Witness ==
    /\ result.op = "add_channel_download"
    /\ result.value = TRUE
    /\ Len(result.arg[1]) = 1
    /\ result.arg[1][1] \in db_history
    /\ Len(result.all_tasks) = 1
    /\ tasks[result.all_tasks[1]].content_type = "short"
    /\ tasks[result.all_tasks[1]].priority = 1
    /\ tasks[result.all_tasks[1]].url \notin db_history

C37_PlaylistEmpty ==
    /\ result.op = "add_playlist_download"
    /\ result.value = TRUE
    /\ result.all_tasks = <<>>
    /\ Len(result.arg) = 1
    /\ result.arg[1] \in db_history

\* the base delay of one second doubled k times
RECURSIVE Doubled(_)
Doubled(k) == IF k = 0 THEN 1 ELSE 2 * Doubled(k - 1)

\* the times at which the k-th attempt of job id failed
FailedAt(id, k) ==
    {e[3].completed_at : e \in {f \in events : /\ f[1] = "download:failed"
                                               /\ f[2] = id
                                               /\ f[3].retry_count = k}}

\* C31: a worker whose attempt was the k-th failure of a job, k < retry_count,
\* sleeps for Doubled(k) seconds, 2 after the first failure and 4 after the
\* second, and puts the job back on the queue no earlier than that after the
\* failure; the third attempt of a job starts no earlier than 3 seconds after
\* its first failure
C31_BackoffDoubles ==
    [][\A w \in DOMAIN workers :
           LET id == workers'[w].task
               back == workers[w].task
           IN /\ workers[w].pc # "sleep" /\ workers'[w].pc = "sleep" =>
                     /\ tasks'[id].retry_count < retry_count
                     /\ workers'[w].until - now = Doubled(tasks'[id].retry_count)
              /\ workers[w].pc = "sleep" /\ workers'[w].pc # "sleep" =>
                     /\ InQueue(queue', back) = InQueue(queue, back) + 1
                     /\ \A at \in FailedAt(back, tasks[back].retry_count) :
                            now - at >= Doubled(tasks[back].retry_count)
              /\ Dequeues(w) /\ tasks[id].retry_count = 2 =>
                     \A at \in FailedAt(id, 1) : now - at >= 3]_vars

\* C31 witness: the third attempt of a job has started, as early as it can: 6
\* seconds after its first failure and 4 after its second
C31_Witness ==
    \E w \in DOMAIN workers :
        /\ workers[w].pc = "extract_info"
        /\ tasks[workers[w].task].retry_count = 2
        /\ FailedAt(workers[w].task, 1) = {now - 6}
        /\ FailedAt(workers[w].task, 2) = {now - 4}
====
